---- MODULE Spec2Model ----
(***************************************************************************)
(* A model of the news aggregation pipeline of src/server/index.ts: the    *)
(* POST /api/news handler, fetchNewsFromMultipleSources and the three      *)
(* source adapters fetchGoogleNewsRss, fetchNewsAPI and fetchGdeltNews.    *)
(*                                                                         *)
(* A JavaScript string is a sequence of one-character strings; a link is   *)
(* a sequence whose first element is its scheme ("http:", "ftp:", ...).    *)
(* A Date is its time in hours, or InvalidTime for an Invalid Date.        *)
(* A number of the request body is a numerator over Denom.                 *)
(***************************************************************************)
EXTENDS Integers, Sequences, FiniteSets, TLC

\* ------------------------------------------------------------- bounds
MaxItems == 1       \* items in one provider response
MaxMerge == 2       \* articles in one list handed to the deduplication
MaxResults == 4     \* articles in the feed adapter's accumulator when it is validated
Denom == 2          \* request numbers are multiples of 1/Denom
Now == 10           \* the clock, in hours, while the request runs

\* ---------------------------------------------------- program constants
DefaultMin == 5
MaxMin == 20
MaxTopics == 10
FreshnessHours == 6
TitleMax == 200
SummaryMax == 300
InvalidTime == -1   \* getTime() of an Invalid Date (NaN)
MaxProbes == 3      \* links validated by the earlier fetchGoogleNewsRss

timeWindows == <<"1h", "6h", "24h", "">>

\* ------------------------------------------------------------ strings
Lower(c) ==
  CASE c = "A" -> "a"
    [] c = "B" -> "b"
    [] c = "C" -> "c"
    [] c = "HTTP:" -> "http:"
    [] OTHER -> c

IsWordChar(c) == c \in {"a", "b", "c", "d", "A", "B", "C", "_"}
IsSpace(c) == c = " "

toLowerCase(s) == [i \in 1..Len(s) |-> Lower(s[i])]

RECURSIVE trimStart(_)
trimStart(s) ==
  IF s # <<>> /\ IsSpace(Head(s)) THEN trimStart(Tail(s)) ELSE s

RECURSIVE trimEnd(_)
trimEnd(s) ==
  IF s # <<>> /\ IsSpace(s[Len(s)]) THEN trimEnd(SubSeq(s, 1, Len(s) - 1)) ELSE s

trim(s) == trimEnd(trimStart(s))

slice(s, n) == SubSeq(s, 1, IF Len(s) < n THEN Len(s) ELSE n)

\* title.includes('[Removed]'): the marker is one element of the string
includesRemoved(s) == \E i \in 1..Len(s) : s[i] = "[Removed]"

\* html.replace(/<[^>]*>/g, ' '): every tag becomes a space
RECURSIVE replaceTags(_)
replaceTags(html) ==
  IF \E i, j \in 1..Len(html) : i < j /\ html[i] = "<" /\ html[j] = ">"
  THEN LET open == CHOOSE i \in 1..Len(html) :
                     html[i] = "<" /\ \A k \in 1..(i - 1) : html[k] # "<"
           close == CHOOSE j \in (open + 1)..Len(html) :
                      html[j] = ">" /\ \A k \in (open + 1)..(j - 1) : html[k] # ">"
       IN SubSeq(html, 1, open - 1) \o <<" ">>
            \o replaceTags(SubSeq(html, close + 1, Len(html)))
  ELSE html

\* s.replace(/\s+/g, ' '): a run of white space becomes one space
collapseSpaces(s) ==
  LET marked == [i \in 1..Len(s) |->
                   [c |-> s[i], follows |-> IsSpace(s[i]) /\ i > 1 /\ IsSpace(s[i - 1])]]
      kept == SelectSeq(marked, LAMBDA m : ~m.follows)
  IN [k \in 1..Len(kept) |-> kept[k].c]

stripHtml(html) == trim(collapseSpaces(replaceTags(html)))

\* new URL(url) parses and the protocol is http: or https:
isValidUrl(url) ==
  /\ Len(url) >= 2
  /\ Lower(url[1]) \in {"http:", "https:"}
  /\ \A i \in 2..Len(url) : ~IsSpace(url[i])

\* ----------------------------------------------------------- articles
Article(t, s, l, p) == [title |-> t, summary |-> s, link |-> l, publishedAt |-> p]

linkKeyNoLower(article) == article.link
linkKey(article) == toLowerCase(article.link)

titleKeyNoStrip(article) == trim(toLowerCase(article.title))
titleKey(article) ==
  trim(SelectSeq(toLowerCase(article.title), LAMBDA c : IsWordChar(c) \/ IsSpace(c)))

\* (a, b) => b.publishedAt.getTime() - a.publishedAt.getTime(), as the engine's
\* SortCompare reads it: a NaN result counts as +0
compareNewestFirst(a, b) ==
  IF a.publishedAt = InvalidTime \/ b.publishedAt = InvalidTime
  THEN 0
  ELSE b.publishedAt - a.publishedAt

Reverse(s) == [i \in 1..Len(s) |-> s[Len(s) + 1 - i]]

\* Array.prototype.sort of the engine for arrays shorter than 64: the length of
\* the initial run, reversed when it is strictly descending ...
RECURSIVE RunLength(_, _, _)
RunLength(s, idx, isDescending) ==
  IF idx > Len(s) THEN idx - 1
  ELSE LET order == compareNewestFirst(s[idx], s[idx - 1])
       IN IF (isDescending /\ order >= 0) \/ (~isDescending /\ order < 0)
          THEN idx - 1
          ELSE RunLength(s, idx + 1, isDescending)

\* ... the insertion point of pivot among s[left..right-1] by binary search ...
RECURSIVE InsertionPoint(_, _, _, _)
InsertionPoint(s, pivot, left, right) ==
  IF left >= right THEN left
  ELSE LET mid == left + ((right - left) \div 2)
       IN IF compareNewestFirst(pivot, s[mid]) < 0
          THEN InsertionPoint(s, pivot, left, mid)
          ELSE InsertionPoint(s, pivot, mid + 1, right)

\* ... and binary insertion of the elements after the run
RECURSIVE BinaryInsertionSort(_, _)
BinaryInsertionSort(s, start) ==
  IF start > Len(s) THEN s
  ELSE LET pivot == s[start]
           at == InsertionPoint(s, pivot, 1, start)
           moved == SubSeq(s, 1, at - 1) \o <<pivot>> \o SubSeq(s, at, start - 1)
                      \o SubSeq(s, start + 1, Len(s))
       IN BinaryInsertionSort(moved, start + 1)

sortUnsorted(s) == s
sortNewestFirst(s) ==
  IF Len(s) < 2 THEN s
  ELSE LET isDescending == compareNewestFirst(s[2], s[1]) < 0
           run == RunLength(s, 3, isDescending)
           made == IF isDescending
                   THEN Reverse(SubSeq(s, 1, run)) \o SubSeq(s, run + 1, Len(s))
                   ELSE s
       IN BinaryInsertionSort(made, run + 1)

\* ------------------------------------------------------ request checks
\* typeof minArticles === 'number' && minArticles > 0 ? Math.min(minArticles, 20) : 5
clampMinNoCap(m) == IF m.isNumber /\ m.n > 0 THEN m.n ELSE DefaultMin * Denom
clampMin(m) ==
  IF m.isNumber /\ m.n > 0
  THEN (IF m.n < MaxMin * Denom THEN m.n ELSE MaxMin * Denom)
  ELSE DefaultMin * Denom

\* topics.filter(string with a non-blank trim).map(trim).slice(0, 10)
filterTopicsNoTrim(topics) ==
  LET kept == SelectSeq(topics.items, LAMBDA t : t.isString /\ Len(t.s) > 0)
  IN slice([i \in 1..Len(kept) |-> trim(kept[i].s)], MaxTopics)
filterTopics(topics) ==
  LET kept == SelectSeq(topics.items, LAMBDA t : t.isString /\ Len(trim(t.s)) > 0)
  IN slice([i \in 1..Len(kept) |-> trim(kept[i].s)], MaxTopics)

\* !Array.isArray(topics) || !topics.length
topicsMissing(topics) == ~topics.isArray \/ Len(topics.items) = 0

\* Math.ceil(min * tenths / 10) on a min of n / Denom
ceilShare(n, tenths) == ((n * tenths) + (10 * Denom) - 1) \div (10 * Denom)

\* array.slice(0, min): the end index is min truncated to an integer
sliceAll(s, n) == s
sliceMin(s, n) == slice(s, n \div Denom)

\* -------------------------------------------------- provider responses
\* A raw item of a provider response after field extraction: the title and
\* link texts and the publish time (k: "ok" parses to time t, "bad" does not
\* parse, "none" is absent).
RawWith(t, l, k, p, description, domain) ==
  [title |-> t, link |-> l, date |-> [k |-> k, t |-> p],
   description |-> description, domain |-> domain]
\* ... without a description and a domain
Raw(t, l, k, p) == RawWith(t, l, k, p, <<>>, <<>>)

\* pubDate: absent or unparsable gives new Date()
rssPublishedAt(date) == IF date.k = "ok" THEN date.t ELSE Now
\* new Date(article.publishedAt || Date.now())
apiPublishedAt(date) ==
  CASE date.k = "ok" -> date.t
    [] date.k = "none" -> Now
    [] OTHER -> InvalidTime
\* seendt: absent, short or unparsable gives new Date()
gdeltPublishedAt(date) == IF date.k = "ok" THEN date.t ELSE Now

\* the texts of the summaries
LatestNewsAbout == <<"L", "a", "t", "e", "s", "t", " ", "n", "e", "w", "s", " ", "a", "b", "o", "u", "t", " ">>
NewsAbout == <<"N", "e", "w", "s", " ", "a", "b", "o", "u", "t", " ">>
BreakingNewsAbout == <<"B", "r", "e", "a", "k", "i", "n", "g", " ", "n", "e", "w", "s", " ", "a", "b", "o", "u", "t", " ">>
From == <<" ", "f", "r", "o", "m", " ">>
InternationalSources == <<"i", "n", "t", "e", "r", "n", "a", "t", "i", "o", "n", "a", "l", " ", "s", "o", "u", "r", "c", "e", "s">>

\* stripHtml(description).slice(0, 300) || `Latest news about ${topic}`, and
\* the slice at the push
rssSummary(description, topic) ==
  LET stripped == slice(stripHtml(description), SummaryMax)
  IN slice(IF stripped # <<>> THEN stripped ELSE LatestNewsAbout \o topic, SummaryMax)
\* description.slice(0, 300) || `News about ${topics[0]}`
apiSummary(description, topics) ==
  LET sliced == slice(trim(description), SummaryMax)
  IN IF sliced # <<>> THEN sliced ELSE NewsAbout \o topics[1]
\* `Breaking news about ${topic} from ${domain || 'international sources'}.`
\* and the slice at the push
gdeltSummary(topic, domain) ==
  slice(BreakingNewsAbout \o topic \o From
          \o (IF trim(domain) # <<>> THEN trim(domain) ELSE InternationalSources)
          \o <<".">>, SummaryMax)

\* the items loop of one topic task of fetchGoogleNewsRss: [out, seen]
RECURSIVE rssItems(_, _, _, _, _, _)
rssItems(items, i, timeWindow, topic, seen, topicResults) ==
  IF i > Len(items) THEN [out |-> topicResults, seen |-> seen]
  ELSE LET title == trim(items[i].title)
           link == trim(items[i].link)
           publishedAt == rssPublishedAt(items[i].date)
           ageHours == Now - publishedAt
           take == /\ title # <<>>
                   /\ link # <<>>
                   /\ isValidUrl(link)
                   /\ link \notin seen
                   /\ (ageHours <= FreshnessHours \/ timeWindow = "")
       IN IF take
          THEN rssItems(items, i + 1, timeWindow, topic, seen \cup {link},
                        Append(topicResults,
                               Article(slice(title, TitleMax),
                                       rssSummary(items[i].description, topic),
                                       link, publishedAt)))
          ELSE rssItems(items, i + 1, timeWindow, topic, seen, topicResults)

\* the merge of one window's articles into results (the cap is minArticles * 2)
RECURSIVE addUnique(_, _, _, _)
addUnique(results, incoming, i, minArticles) ==
  IF i > Len(incoming) THEN results
  ELSE IF (\A j \in 1..Len(results) : results[j].link # incoming[i].link)
          /\ Len(results) < minArticles * 2
       THEN addUnique(Append(results, incoming[i]), incoming, i + 1, minArticles)
       ELSE addUnique(results, incoming, i + 1, minArticles)

\* the articles loop of fetchNewsAPI
RECURSIVE apiItems(_, _, _, _, _)
apiItems(articles, i, topics, minArticles, results) ==
  IF i > Len(articles) \/ Len(results) >= minArticles THEN results
  ELSE LET title == trim(articles[i].title)
           url == trim(articles[i].link)
           publishedAt == apiPublishedAt(articles[i].date)
       IN IF title # <<>> /\ url # <<>> /\ isValidUrl(url) /\ ~includesRemoved(title)
          THEN apiItems(articles, i + 1, topics, minArticles,
                        Append(results,
                               Article(slice(title, TitleMax),
                                       apiSummary(articles[i].description, topics),
                                       url, publishedAt)))
          ELSE apiItems(articles, i + 1, topics, minArticles, results)

\* the articles loop of one topic of fetchGdeltNews
RECURSIVE gdeltItems(_, _, _, _, _)
gdeltItems(articles, i, topic, minArticles, results) ==
  IF i > Len(articles) \/ Len(results) >= minArticles THEN results
  ELSE LET title == trim(articles[i].title)
           url == trim(articles[i].link)
           publishedAt == gdeltPublishedAt(articles[i].date)
           dup == \E j \in 1..Len(results) :
                    results[j].link = url \/ results[j].title = title
       IN IF title = <<>> \/ url = <<>> \/ ~isValidUrl(url) \/ dup
          THEN gdeltItems(articles, i + 1, topic, minArticles, results)
          ELSE gdeltItems(articles, i + 1, topic, minArticles,
                          Append(results,
                                 Article(slice(title, TitleMax),
                                         gdeltSummary(topic, articles[i].domain),
                                         url, publishedAt)))

\* ------------------------------------------------------------- dedupe
\* the loop over allArticles of fetchNewsFromMultipleSources: one seen set
\* holds the link keys and the title keys
RECURSIVE dedupeMarksRejected(_, _, _, _)
dedupeMarksRejected(allArticles, i, seen, uniqueArticles) ==
  IF i > Len(allArticles) THEN uniqueArticles
  ELSE LET lk == linkKey(allArticles[i])
           tk == titleKey(allArticles[i])
       IN IF lk \notin seen /\ tk \notin seen
          THEN dedupeMarksRejected(allArticles, i + 1, seen \cup {lk, tk},
                                   Append(uniqueArticles, allArticles[i]))
          ELSE dedupeMarksRejected(allArticles, i + 1, seen \cup {lk, tk}, uniqueArticles)
RECURSIVE dedupe(_, _, _, _)
dedupe(allArticles, i, seen, uniqueArticles) ==
  IF i > Len(allArticles) THEN uniqueArticles
  ELSE LET lk == linkKey(allArticles[i])
           tk == titleKey(allArticles[i])
       IN IF lk \notin seen /\ tk \notin seen
          THEN dedupe(allArticles, i + 1, seen \cup {lk, tk},
                      Append(uniqueArticles, allArticles[i]))
          ELSE dedupe(allArticles, i + 1, seen, uniqueArticles)

\* combine, deduplicate, sort, limit
combine(googleNews, newsApiResults, gdeltNews, minArticles) ==
  LET allArticles == googleNews \o newsApiResults \o gdeltNews
      uniqueArticles == dedupe(allArticles, 1, {}, <<>>)
  IN sliceMin(sortNewestFirst(uniqueArticles), minArticles)

\* ------------------------------------------------------------- inputs
LinkA == <<"http:", "a">>
LinkAUpper == <<"http:", "A">>
LinkB == <<"https:", "b">>
LinkC == <<"http:", "c">>
LinkFtp == <<"ftp:", "a">>

\* what the feed may hold for a topic and a window
RssPool ==
  { Raw(<<"a">>, LinkA, "ok", Now - 1),
    Raw(<<"b", " ">>, LinkAUpper, "ok", Now - 3),
    Raw(<<"c">>, LinkC, "ok", Now - FreshnessHours - 2),
    Raw(<<" ">>, LinkFtp, "bad", 0) }

\* what the key-gated search API may hold
ApiPool ==
  { Raw(<<"A", "!">>, LinkB, "ok", Now - 2),
    Raw(<<"d">>, LinkA, "bad", 0),
    Raw(<<"[Removed]">>, LinkC, "none", 0) }

\* what the global-index API may hold
GdeltPool ==
  { Raw(<<"b">>, LinkB, "ok", Now - 4),
    Raw(<<"d">>, LinkC, "none", 0) }

SeqsUpTo(S, n) == UNION { [1..k -> S] : k \in 0..n }

Str(s) == [isString |-> TRUE, s |-> s]
NotStr == [isString |-> FALSE, s |-> <<>>]
Arr(items) == [isArray |-> TRUE, items |-> items]
NotArr == [isArray |-> FALSE, items |-> <<>>]
Num(n) == [isNumber |-> TRUE, n |-> n]
NotNum == [isNumber |-> FALSE, n |-> 0]

\* request bodies: topics absent or not an array, empty, blank only, valid
TopicsInputs ==
  { NotArr,
    Arr(<<>>),
    Arr(<<Str(<<" ">>), NotStr>>),
    Arr(<<Str(<<"a">>)>>),
    Arr(<<Str(<<" ">>), Str(<<" ", "a">>), Str(<<"b">>)>>) }

\* minArticles absent or not a number, fractional, whole, above the cap
MinInputs ==
  { NotNum, Num(1), Num(Denom), Num((2 * Denom) + 1), Num((MaxMin + 1) * Denom) }

\* ... and zero or negative
NonPositiveMinInputs == { Num(0), Num(0 - Denom) }

Requests ==
  [topics : TopicsInputs, minArticles : MinInputs]
    \cup [topics : {Arr(<<Str(<<"a">>)>>)}, minArticles : NonPositiveMinInputs]

\* -------------------------------------------------------------- state
VARIABLES
  phase,           \* "idle", "running" (awaiting the adapters), "responded"
  req,             \* the request body
  hasNewsKey,      \* process.env.NEWS_API_KEY is set
  validTopics,     \* the handler's validTopics
  min,             \* the handler's min, over Denom
  timeWindow,      \* fetchGoogleNewsRss: index of the window being fetched
  results,         \* fetchGoogleNewsRss: results
  seen,            \* fetchGoogleNewsRss: seen, shared by the topic tasks
  tasks,           \* fetchGoogleNewsRss: the topic promises of the window
  googleNews,      \* the promise of fetchGoogleNewsRss
  apiPos,          \* fetchNewsAPI: "fetch", "body" or "done"
  newsApiResults,  \* the promise of fetchNewsAPI
  gdeltPos,        \* fetchGdeltNews: "fetch", "body" or "done"
  gdeltTopic,      \* fetchGdeltNews: index of the topic being fetched
  gdeltResults,    \* fetchGdeltNews: results
  gdeltNews,       \* the promise of fetchGdeltNews
  issued,          \* the requests sent to the providers, counted
  warned,          \* the adapter call that settled last logged a failure
  finalArticles,   \* what fetchNewsFromMultipleSources returned
  res,             \* the HTTP response
  validation,      \* the link validation of the earlier fetchGoogleNewsRss
  ui,              \* the state of the App component and the position of its refine handler
  calls            \* two overlapping calls of fetchNewsFromMultipleSources

vars == <<phase, req, hasNewsKey, validTopics, min, timeWindow, results, seen,
          tasks, googleNews, apiPos, newsApiResults, gdeltPos, gdeltTopic,
          gdeltResults, gdeltNews, issued, warned, finalArticles, res, validation, ui, calls>>

googleVars == <<timeWindow, results, seen, tasks, googleNews>>
apiVars == <<apiPos, newsApiResults>>
gdeltVars == <<gdeltPos, gdeltTopic, gdeltResults, gdeltNews>>
handlerVars == <<phase, req, validTopics, min, finalArticles, res>>

Pending == [st |-> "pending", value |-> <<>>]
Fulfilled(v) == [st |-> "fulfilled", value |-> v]
Rejected == [st |-> "rejected", value |-> <<>>]

NoResponse == [status |-> 0, error |-> "", body |-> <<>>]
Response(status, error, body) == [status |-> status, error |-> error, body |-> body]

ReqKey(adapter, topic, window) == [adapter |-> adapter, topic |-> topic, window |-> window]
\* a bag of requests: how many times each was sent
count(bag, k) == IF k \in DOMAIN bag THEN bag[k] ELSE 0
send(bag, keys) ==
  [k \in (DOMAIN bag) \cup keys |-> count(bag, k) + (IF k \in keys THEN 1 ELSE 0)]

\* the validation loop: where it stands, the index of the article probed, the
\* outcomes of the two probes of the last validateLink call, the results of the
\* calls so far, the warnings logged and the list the loop runs over
NoValidation ==
  [pos |-> "idle", i |-> 0, head |-> "", get |-> "", valid |-> <<>>, warnings |-> 0,
   finalResults |-> <<>>]

\* a value that may be null
Null == [isNull |-> TRUE, s |-> <<>>]
Val(s) == [isNull |-> FALSE, s |-> s]

\* the state of App (newsletterHtml, headerImageUrl, refinementPrompt,
\* loadingAction, loadingMessage, error; "" is null), the position of
\* handleRefineNewsletter and its local result
NoUi ==
  [pos |-> "idle", newsletterHtml |-> Null, headerImageUrl |-> Null,
   refinementPrompt |-> <<>>, loadingAction |-> "", loadingMessage |-> "",
   error |-> "", result |-> <<>>]

\* the callers of two overlapping calls, and what each call holds: its
\* position, its topic, the feed's response to it, the window, results and
\* what fetchGoogleNewsRss and the call return; seen holds the seen sets
Callers == {1, 2}
IdleCall ==
  [pos |-> "idle", topic |-> <<>>, feed |-> <<>>, timeWindow |-> 0, results |-> <<>>,
   googleNews |-> <<>>, value |-> <<>>]
NoCalls == [seen |-> [k \in {0} \cup Callers |-> {}], call |-> [c \in Callers |-> IdleCall]]

Init ==
  /\ phase = "idle"
  /\ req = [topics |-> NotArr, minArticles |-> NotNum]
  /\ hasNewsKey \in BOOLEAN
  /\ validTopics = <<>>
  /\ min = 0
  /\ timeWindow = 0
  /\ results = <<>>
  /\ seen = {}
  /\ tasks = <<>>
  /\ googleNews = Pending
  /\ apiPos = "done"
  /\ newsApiResults = Pending
  /\ gdeltPos = "done"
  /\ gdeltTopic = 0
  /\ gdeltResults = <<>>
  /\ gdeltNews = Pending
  /\ issued = [k \in {} |-> 0]
  /\ warned = FALSE
  /\ finalArticles = <<>>
  /\ res = NoResponse
  /\ validation = NoValidation
  /\ ui = NoUi
  /\ calls = NoCalls

\* ------------------------------------------------------------ handler
\* the handler after fetchNewsFromMultipleSources returned: 404 on an empty
\* list; toISOString throws on an Invalid Date, which the handler's catch
\* answers with 500
respondEmptyAsSuccess(articles) ==
  IF \E i \in 1..Len(articles) : articles[i].publishedAt = InvalidTime
  THEN Response(500, "Failed to fetch news", <<>>)
  ELSE Response(200, "", articles)
respondEmptyAsFailure(articles) ==
  IF Len(articles) = 0 \/ \E i \in 1..Len(articles) : articles[i].publishedAt = InvalidTime
  THEN Response(500, "Failed to fetch news", <<>>)
  ELSE Response(200, "", articles)
respond(articles) ==
  IF Len(articles) = 0
  THEN Response(404, "No recent articles found", <<>>)
  ELSE IF \E i \in 1..Len(articles) : articles[i].publishedAt = InvalidTime
       THEN Response(500, "Failed to fetch news", <<>>)
       ELSE Response(200, "", articles)

\* the catch blocks of the adapters: the failure is logged and the adapter
\* goes on with what it has
rssUncaught(topicResults) == [st |-> "done", out |-> <<>>, threw |-> TRUE]
rssCaught(topicResults) == [st |-> "done", out |-> topicResults, threw |-> FALSE]

newTask == [st |-> "fetch", out |-> <<>>, threw |-> FALSE]

\* -------------------------------------------------- fetchGoogleNewsRss
\* the head of the window loop, entered at window w with results r
rssNeverStopsEarly(w, r, minArticles) == w > Len(timeWindows)
rssStops(w, r, minArticles) == w > Len(timeWindows) \/ Len(r) >= minArticles

rssSendsAhead(w, r, topics, minArticles) ==
  IF rssStops(w, r, minArticles) THEN {}
  ELSE { ReqKey("rss", i, v) : i \in 1..Len(topics), v \in w..Len(timeWindows) }
rssSendsAgain(w, r, topics, minArticles) ==
  IF rssStops(w, r, minArticles) THEN {}
  ELSE { ReqKey("rss", i, v) : i \in 1..Len(topics), v \in {w, IF w > 1 THEN w - 1 ELSE w} }
rssSends(w, r, topics, minArticles) ==
  IF rssStops(w, r, minArticles) THEN {}
  ELSE { ReqKey("rss", i, w) : i \in 1..Len(topics) }

rssLoop(w, r, topics, minArticles) ==
  IF rssStops(w, r, minArticles)
  THEN /\ results' = sortNewestFirst(r)
       /\ googleNews' = Fulfilled(slice(sortNewestFirst(r), minArticles))
       /\ tasks' = <<>>
       /\ timeWindow' = w
  ELSE /\ results' = r
       /\ googleNews' = Pending
       /\ tasks' = [i \in 1..Len(topics) |-> newTask]
       /\ timeWindow' = w

\* ------------------------------------------------------- fetchNewsAPI
apiKeyIgnored(key) == FALSE
apiSkips(key) == ~key

apiSends(key) == IF apiSkips(key) THEN {} ELSE {ReqKey("api", 0, 0)}

apiStart(key) ==
  IF apiSkips(key)
  THEN /\ apiPos' = "done"
       /\ newsApiResults' = Fulfilled(<<>>)
  ELSE /\ apiPos' = "fetch"
       /\ newsApiResults' = Pending

\* ----------------------------------------------------- fetchGdeltNews
gdeltStops(i, r, topics, minArticles) == i > Len(topics) \/ Len(r) >= minArticles

gdeltSends(i, r, topics, minArticles) ==
  IF gdeltStops(i, r, topics, minArticles) THEN {} ELSE {ReqKey("gdelt", i, 0)}

gdeltLoop(i, r, topics, minArticles) ==
  IF gdeltStops(i, r, topics, minArticles)
  THEN /\ gdeltResults' = sortNewestFirst(r)
       /\ gdeltNews' = Fulfilled(sortNewestFirst(r))
       /\ gdeltPos' = "done"
       /\ gdeltTopic' = i
  ELSE /\ gdeltResults' = r
       /\ gdeltNews' = Pending
       /\ gdeltPos' = "fetch"
       /\ gdeltTopic' = i

minGoogle(m) == ceilShare(m, 6)
minApi(m) == ceilShare(m, 3)
minGdelt(m) == ceilShare(m, 3)

\* ------------------------------------------------------------ actions
\* POST /api/news up to the await of fetchNewsFromMultipleSources: the request
\* is refused with 400, or the three adapters are started
HandleNewsRequest(r) ==
  /\ phase = "idle"
  /\ req' = r
  /\ IF topicsMissing(r.topics) \/ filterTopics(r.topics) = <<>>
     THEN /\ phase' = "responded"
          /\ res' = Response(400, IF topicsMissing(r.topics)
                                  THEN "Topics array is required"
                                  ELSE "At least one valid topic is required", <<>>)
          /\ UNCHANGED <<validTopics, min, finalArticles, issued>>
          /\ UNCHANGED <<googleVars, apiVars, gdeltVars>>
     ELSE LET m == clampMin(r.minArticles)
              t == filterTopics(r.topics)
          IN /\ phase' = "running"
             /\ min' = m
             /\ validTopics' = t
             /\ rssLoop(1, <<>>, t, minGoogle(m))
             /\ seen' = {}
             /\ apiStart(hasNewsKey)
             /\ gdeltLoop(1, <<>>, t, minGdelt(m))
             /\ issued' = send(issued, rssSends(1, <<>>, t, minGoogle(m))
                                         \cup apiSends(hasNewsKey)
                                         \cup gdeltSends(1, <<>>, t, minGdelt(m)))
             /\ UNCHANGED <<finalArticles, res>>
  /\ warned' = FALSE
  /\ UNCHANGED <<hasNewsKey, ui, calls, validation>>

\* the fetch of one topic task settles: a response, an error status, or a
\* network error or timeout
RssFetchSettle(i, outcome) ==
  /\ phase = "running"
  /\ googleNews.st = "pending"
  /\ i \in 1..Len(tasks)
  /\ tasks[i].st = "fetch"
  /\ tasks' = [tasks EXCEPT ![i] =
                 CASE outcome = "ok" -> [st |-> "body", out |-> <<>>, threw |-> FALSE]
                   [] outcome = "status" -> [st |-> "done", out |-> <<>>, threw |-> FALSE]
                   [] OTHER -> rssCaught(<<>>)]
  /\ warned' = (outcome # "ok")
  /\ UNCHANGED <<timeWindow, results, seen, googleNews>>
  /\ UNCHANGED <<apiVars, gdeltVars, handlerVars, hasNewsKey, ui, calls, validation, issued>>

\* response.text() of one topic task settles and its items are parsed
RssBodySettle(i, body) ==
  /\ phase = "running"
  /\ googleNews.st = "pending"
  /\ i \in 1..Len(tasks)
  /\ tasks[i].st = "body"
  /\ IF body.k = "error"
     THEN /\ tasks' = [tasks EXCEPT ![i] = rssCaught(<<>>)]
          /\ seen' = seen
     ELSE LET parsed == rssItems(body.items, 1, timeWindows[timeWindow], validTopics[i], seen, <<>>)
          IN /\ tasks' = [tasks EXCEPT ![i] =
                            [st |-> "done", out |-> parsed.out, threw |-> FALSE]]
             /\ seen' = parsed.seen
  /\ warned' = (body.k = "error")
  /\ UNCHANGED <<timeWindow, results, googleNews>>
  /\ UNCHANGED <<apiVars, gdeltVars, handlerVars, hasNewsKey, ui, calls, validation, issued>>

RECURSIVE flat(_, _)
flat(ts, i) == IF i > Len(ts) THEN <<>> ELSE ts[i].out \o flat(ts, i + 1)

\* Promise.all of the window's tasks settles: merge, then the next window
RssWindowJoin ==
  /\ phase = "running"
  /\ googleNews.st = "pending"
  /\ \A i \in 1..Len(tasks) : tasks[i].st = "done"
  /\ IF \E i \in 1..Len(tasks) : tasks[i].threw
     THEN /\ googleNews' = Rejected
          /\ UNCHANGED <<timeWindow, results, tasks, issued>>
     ELSE LET timeWindowResults == sortNewestFirst(flat(tasks, 1))
              merged == addUnique(results, timeWindowResults, 1, minGoogle(min))
          IN /\ rssLoop(timeWindow + 1, merged, validTopics, minGoogle(min))
             /\ issued' = send(issued, rssSends(timeWindow + 1, merged, validTopics,
                                                minGoogle(min)))
  /\ UNCHANGED <<seen, warned>>
  /\ UNCHANGED <<apiVars, gdeltVars, handlerVars, hasNewsKey, ui, calls, validation>>

\* the fetch of fetchNewsAPI settles
NewsApiFetchSettle(outcome) ==
  /\ phase = "running"
  /\ apiPos = "fetch"
  /\ IF outcome = "ok"
     THEN /\ apiPos' = "body"
          /\ UNCHANGED newsApiResults
     ELSE /\ apiPos' = "done"
          /\ newsApiResults' = Fulfilled(<<>>)
  /\ warned' = (outcome # "ok")
  /\ UNCHANGED <<googleVars, gdeltVars, handlerVars, hasNewsKey, ui, calls, validation, issued>>

\* response.json() of fetchNewsAPI settles and its articles are read
NewsApiBodySettle(body) ==
  /\ phase = "running"
  /\ apiPos = "body"
  /\ apiPos' = "done"
  /\ newsApiResults' =
       IF body.k = "articles"
       THEN Fulfilled(apiItems(body.items, 1, validTopics, minApi(min), <<>>))
       ELSE Fulfilled(<<>>)
  /\ warned' = (body.k = "error")
  /\ UNCHANGED <<googleVars, gdeltVars, handlerVars, hasNewsKey, ui, calls, validation, issued>>

\* the fetch of the current topic of fetchGdeltNews settles: a JSON response,
\* or an error status, another content type, a network error or a timeout
GdeltFetchSettle(outcome) ==
  /\ phase = "running"
  /\ gdeltPos = "fetch"
  /\ IF outcome = "ok"
     THEN /\ gdeltPos' = "body"
          /\ UNCHANGED <<gdeltTopic, gdeltResults, gdeltNews, issued>>
     ELSE /\ gdeltLoop(gdeltTopic + 1, gdeltResults, validTopics, minGdelt(min))
          /\ issued' = send(issued, gdeltSends(gdeltTopic + 1, gdeltResults, validTopics,
                                               minGdelt(min)))
  /\ warned' = (outcome # "ok")
  /\ UNCHANGED <<googleVars, apiVars, handlerVars, hasNewsKey, ui, calls, validation>>

\* response.json() of the current topic settles and its articles are read
GdeltBodySettle(body) ==
  /\ phase = "running"
  /\ gdeltPos = "body"
  /\ LET r == IF body.k = "articles"
              THEN gdeltItems(body.items, 1, validTopics[gdeltTopic], minGdelt(min), gdeltResults)
              ELSE gdeltResults
     IN /\ gdeltLoop(gdeltTopic + 1, r, validTopics, minGdelt(min))
        /\ issued' = send(issued, gdeltSends(gdeltTopic + 1, r, validTopics, minGdelt(min)))
  /\ warned' = (body.k = "error")
  /\ UNCHANGED <<googleVars, apiVars, handlerVars, hasNewsKey, ui, calls, validation>>

\* Promise.all of the three adapters settles: fetchNewsFromMultipleSources
\* returns and the handler answers
AggregateJoin ==
  /\ phase = "running"
  /\ IF "rejected" \in {googleNews.st, newsApiResults.st, gdeltNews.st}
     THEN /\ res' = Response(500, "Failed to fetch news", <<>>)
          /\ UNCHANGED finalArticles
     ELSE /\ googleNews.st = "fulfilled"
          /\ newsApiResults.st = "fulfilled"
          /\ gdeltNews.st = "fulfilled"
          /\ finalArticles' = combine(googleNews.value, newsApiResults.value,
                                      gdeltNews.value, min)
          /\ res' = respond(finalArticles')
  /\ phase' = "responded"
  /\ UNCHANGED <<warned, req, validTopics, min, googleVars, apiVars, gdeltVars, hasNewsKey, ui, calls, validation, issued>>

FetchOutcomes == {"ok", "status", "error"}
GdeltFetchOutcomes == {"ok", "status", "nonjson", "error"}
Bodies(pool) ==
  { [k |-> "error", items |-> <<>>], [k |-> "other", items |-> <<>>] }
    \cup { [k |-> "articles", items |-> b] : b \in SeqsUpTo(pool, MaxItems) }
RssBodies ==
  { [k |-> "error", items |-> <<>>] }
    \cup { [k |-> "items", items |-> b] : b \in SeqsUpTo(RssPool, MaxItems) }

Next ==
  \/ \E r \in Requests : HandleNewsRequest(r)
  \/ \E i \in 1..3, o \in FetchOutcomes : RssFetchSettle(i, o)
  \/ \E i \in 1..3, b \in RssBodies : RssBodySettle(i, b)
  \/ RssWindowJoin
  \/ \E o \in FetchOutcomes : NewsApiFetchSettle(o)
  \/ \E b \in Bodies(ApiPool) : NewsApiBodySettle(b)
  \/ \E o \in GdeltFetchOutcomes : GdeltFetchSettle(o)
  \/ \E b \in Bodies(GdeltPool) : GdeltBodySettle(b)
  \/ AggregateJoin

Spec == Init /\ [][Next]_vars

\* The providers hold nothing usable: every call fails, or its response is
\* empty or holds only items the adapters refuse.
UnusableItems == { Raw(<<" ">>, LinkFtp, "bad", 0), Raw(<<>>, LinkA, "none", 0) }
RemovedItems == { Raw(<<"[Removed]">>, LinkC, "none", 0) }
StarvedRssBodies ==
  { [k |-> "error", items |-> <<>>] }
    \cup { [k |-> "items", items |-> b] : b \in SeqsUpTo(UnusableItems, MaxItems) }
StarvedBodies(pool) ==
  { [k |-> "error", items |-> <<>>], [k |-> "other", items |-> <<>>] }
    \cup { [k |-> "articles", items |-> b] : b \in SeqsUpTo(pool, MaxItems) }

StarvedNext ==
  \/ \E r \in Requests : HandleNewsRequest(r)
  \/ \E i \in 1..3, o \in FetchOutcomes : RssFetchSettle(i, o)
  \/ \E i \in 1..3, b \in StarvedRssBodies : RssBodySettle(i, b)
  \/ RssWindowJoin
  \/ \E o \in FetchOutcomes : NewsApiFetchSettle(o)
  \/ \E b \in StarvedBodies(UnusableItems \cup RemovedItems) : NewsApiBodySettle(b)
  \/ \E o \in GdeltFetchOutcomes : GdeltFetchSettle(o)
  \/ \E b \in StarvedBodies(UnusableItems) : GdeltBodySettle(b)
  \/ AggregateJoin

\* every fetch carries a timeout, so each pending call settles, and a join
\* runs once its promises have settled
StarvedSpec == Init /\ [][StarvedNext]_vars /\ WF_vars(StarvedNext)

\* One topic and providers that answer a call with a failure, with nothing, or
\* with their whole feed of three articles: three fresh ones, unique across
\* the providers, and for the syndication feed also three old ones.
FreshFeed ==
  << Raw(<<"a", "a">>, <<"http:", "a", "a">>, "ok", Now - 1),
     Raw(<<"a", "b">>, <<"http:", "a", "b">>, "ok", Now),
     Raw(<<"a", "c">>, <<"http:", "a", "c">>, "ok", Now - 1) >>
OldFeed ==
  << Raw(<<"d", "a">>, <<"http:", "d", "a">>, "ok", Now - FreshnessHours - 2),
     Raw(<<"d", "b">>, <<"http:", "d", "b">>, "ok", Now - FreshnessHours - 1),
     Raw(<<"d", "c">>, <<"http:", "d", "c">>, "ok", Now - FreshnessHours - 3) >>
ApiFeed ==
  << Raw(<<"b", "a">>, <<"https:", "b", "a">>, "ok", Now),
     Raw(<<"b", "b">>, <<"https:", "b", "b">>, "ok", Now - 1),
     Raw(<<"b", "c">>, <<"https:", "b", "c">>, "none", 0) >>
GdeltFeed ==
  << Raw(<<"c", "a">>, <<"http:", "c", "a">>, "ok", Now - 1),
     Raw(<<"c", "b">>, <<"http:", "c", "b">>, "ok", Now - 1),
     Raw(<<"c", "c">>, <<"http:", "c", "c">>, "ok", Now) >>

ScenarioRequests ==
  [topics : {Arr(<<Str(<<"a">>)>>)}, minArticles : {NotNum, Num(3 * Denom)}]
ScenarioRssBodies ==
  { [k |-> "error", items |-> <<>>] }
    \cup { [k |-> "items", items |-> b] : b \in {<<>>, FreshFeed, OldFeed} }
ScenarioBodies(feed) ==
  { [k |-> "error", items |-> <<>>], [k |-> "other", items |-> <<>>] }
    \cup { [k |-> "articles", items |-> b] : b \in {<<>>, feed} }

ScenarioNext ==
  \/ \E r \in ScenarioRequests : HandleNewsRequest(r)
  \/ \E o \in FetchOutcomes : RssFetchSettle(1, o)
  \/ \E b \in ScenarioRssBodies : RssBodySettle(1, b)
  \/ RssWindowJoin
  \/ \E o \in FetchOutcomes : NewsApiFetchSettle(o)
  \/ \E b \in ScenarioBodies(ApiFeed) : NewsApiBodySettle(b)
  \/ \E o \in GdeltFetchOutcomes : GdeltFetchSettle(o)
  \/ \E b \in ScenarioBodies(GdeltFeed) : GdeltBodySettle(b)
  \/ AggregateJoin

ScenarioSpec == Init /\ [][ScenarioNext]_vars

\* ------------------------------------------- the deduplication pass alone
\* the pass of fetchNewsFromMultipleSources over existing followed by incoming
merge(existing, incoming) == dedupe(existing \o incoming, 1, {}, <<>>)

\* articles that collide by link case, by title punctuation and by title
MergePool ==
  { Article(<<"a">>, <<"s">>, LinkA, Now - 1),
    Article(<<"b">>, <<"s">>, LinkAUpper, Now - 2),
    Article(<<"A", "!">>, <<"s">>, LinkB, Now - 3),
    Article(<<"b">>, <<"s">>, LinkC, Now) }

\* two adapters have returned the lists A and B, and none of the rest ran
MergeInit ==
  /\ phase = "merge"
  /\ req = [topics |-> NotArr, minArticles |-> NotNum]
  /\ hasNewsKey = FALSE
  /\ validTopics = <<>>
  /\ min = 0
  /\ timeWindow = 0
  /\ results = <<>>
  /\ seen = {}
  /\ tasks = <<>>
  /\ googleNews \in { Fulfilled(a) : a \in SeqsUpTo(MergePool, MaxMerge) }
  /\ apiPos = "done"
  /\ newsApiResults = Fulfilled(<<>>)
  /\ gdeltPos = "done"
  /\ gdeltTopic = 0
  /\ gdeltResults = <<>>
  /\ gdeltNews \in { Fulfilled(b) : b \in SeqsUpTo(MergePool, MaxMerge) }
  /\ issued = [k \in {} |-> 0]
  /\ warned = FALSE
  /\ finalArticles = <<>>
  /\ res = NoResponse
  /\ validation = NoValidation
  /\ ui = NoUi
  /\ calls = NoCalls

\* the pass runs over the two lists
MergeBatch ==
  /\ phase = "merge"
  /\ finalArticles' = merge(googleNews.value, gdeltNews.value)
  /\ phase' = "merged"
  /\ UNCHANGED <<req, validTopics, min, res, googleVars, apiVars, gdeltVars,
                 hasNewsKey, ui, calls, issued, warned, validation>>

\* the pass runs again over its result and the same incoming list
RemergeBatch ==
  /\ phase = "merged"
  /\ finalArticles' = merge(finalArticles, gdeltNews.value)
  /\ phase' = "remerged"
  /\ UNCHANGED <<req, validTopics, min, res, googleVars, apiVars, gdeltVars,
                 hasNewsKey, ui, calls, issued, warned, validation>>

MergeNext == MergeBatch \/ RemergeBatch

MergeSpec == MergeInit /\ [][MergeNext]_vars

\* ---------------------------- link validation (src/unnamed/part_000)
\* The earlier fetchGoogleNewsRss validates the links of its top results
\* before it returns. A probe of validateLink ends "ok" (2xx), "redirect" (3xx),
\* "405", "403", "status" (any other status) or "error" (network error, timeout).

\* the HEAD status after which validateLink tries a GET
retries(head) == head \in {"405", "403"}

\* validateLink(url), by the outcomes of its HEAD and, if sent, GET
validateLink(head, get) ==
  CASE head = "error" -> TRUE
    [] head \in {"ok", "redirect"} -> TRUE
    [] retries(head) -> (IF get = "error" THEN TRUE ELSE get = "ok")
    [] OTHER -> FALSE

\* Math.min(3, finalResults.length)
probeCount(finalResults) ==
  IF Len(finalResults) < MaxProbes THEN Len(finalResults) ELSE MaxProbes

\* return finalResults
returnOnlyValid(finalResults, valid) ==
  LET kept == { i \in 1..Len(finalResults) : i > Len(valid) \/ valid[i] }
      nth(k) == CHOOSE i \in kept : Cardinality({ j \in kept : j < i }) = k - 1
  IN [k \in 1..Cardinality(kept) |-> finalResults[nth(k)]]
returnResults(finalResults, valid) == finalResults

\* the call of validateLink ended with isValid: the result is logged
logged(v, isValid) ==
  [v EXCEPT !.valid = Append(@, isValid),
            !.warnings = @ + (IF isValid THEN 0 ELSE 1)]

\* the head of the validation loop at index i (from 1)
validateLoop(i, v) ==
  IF i > probeCount(v.finalResults)
  THEN /\ validation' = [v EXCEPT !.pos = "done", !.i = i]
       /\ googleNews' = Fulfilled(returnResults(v.finalResults, v.valid))
       /\ issued' = issued
  ELSE /\ validation' = [v EXCEPT !.pos = "head", !.i = i]
       /\ googleNews' = Pending
       /\ issued' = send(issued, {ReqKey("head", i, 0)})

ValidatePool ==
  { Article(<<"a">>, <<"s">>, LinkA, Now - 1),
    Article(<<"b">>, <<"s">>, LinkB, Now - 2),
    Article(<<"c">>, <<"s">>, LinkC, Now),
    Article(<<"d">>, <<"s">>, LinkAUpper, Now - 1) }

\* lists without a repeated link
Accumulators ==
  { r \in SeqsUpTo(ValidatePool, MaxResults) :
      \A i, j \in 1..Len(r) : i # j => r[i].link # r[j].link }

\* the window loop of fetchGoogleNewsRss has ended with some accumulator
ValidateInit ==
  /\ phase = "running"
  /\ req = [topics |-> NotArr, minArticles |-> NotNum]
  /\ hasNewsKey = FALSE
  /\ validTopics = <<>>
  /\ min \in { n * Denom : n \in 1..MaxResults }
  /\ timeWindow = 0
  /\ results \in Accumulators
  /\ seen = {}
  /\ tasks = <<>>
  /\ googleNews = Pending
  /\ apiPos = "done"
  /\ newsApiResults = Pending
  /\ gdeltPos = "done"
  /\ gdeltTopic = 0
  /\ gdeltResults = <<>>
  /\ gdeltNews = Pending
  /\ issued = [k \in {} |-> 0]
  /\ warned = FALSE
  /\ finalArticles = <<>>
  /\ res = NoResponse
  /\ validation = NoValidation
  /\ ui = NoUi
  /\ calls = NoCalls

\* the final sort and limit, and the entry of the validation loop
ValidateStart ==
  /\ validation.pos = "idle"
  /\ results' = sortNewestFirst(results)
  /\ validateLoop(1, [validation EXCEPT !.finalResults = slice(results', min \div Denom)])
  /\ UNCHANGED <<timeWindow, seen, tasks, warned>>
  /\ UNCHANGED <<apiVars, gdeltVars, handlerVars, hasNewsKey, ui, calls>>

\* the HEAD request of validateLink settles
HeadSettle(outcome) ==
  /\ validation.pos = "head"
  /\ IF retries(outcome)
     THEN /\ validation' = [validation EXCEPT !.pos = "get", !.head = outcome, !.get = ""]
          /\ issued' = send(issued, {ReqKey("get", validation.i, 0)})
          /\ UNCHANGED googleNews
     ELSE validateLoop(validation.i + 1,
                       logged([validation EXCEPT !.head = outcome, !.get = ""],
                              validateLink(outcome, "")))
  /\ UNCHANGED <<timeWindow, results, seen, tasks, warned>>
  /\ UNCHANGED <<apiVars, gdeltVars, handlerVars, hasNewsKey, ui, calls>>

\* the GET request of validateLink settles
GetSettle(outcome) ==
  /\ validation.pos = "get"
  /\ validateLoop(validation.i + 1,
                  logged([validation EXCEPT !.get = outcome],
                         validateLink(validation.head, outcome)))
  /\ UNCHANGED <<timeWindow, results, seen, tasks, warned>>
  /\ UNCHANGED <<apiVars, gdeltVars, handlerVars, hasNewsKey, ui, calls>>

HeadOutcomes == {"ok", "redirect", "405", "403", "status", "error"}
GetOutcomes == {"ok", "status", "error"}

ValidateNext ==
  \/ ValidateStart
  \/ \E o \in HeadOutcomes : HeadSettle(o)
  \/ \E o \in GetOutcomes : GetSettle(o)

ValidateSpec == ValidateInit /\ [][ValidateNext]_vars

\* ===================================================================
\* Properties
\* ===================================================================
Range(s) == { s[i] : i \in 1..Len(s) }

\* fetchNewsFromMultipleSources returned a list to the handler
Aggregated ==
  /\ phase = "responded"
  /\ res.status # 400
  /\ googleNews.st = "fulfilled"
  /\ newsApiResults.st = "fulfilled"
  /\ gdeltNews.st = "fulfilled"

\* what the three adapters handed to the aggregation
AdapterOutputs == googleNews.value \o newsApiResults.value \o gdeltNews.value

LowerLink(a) == [i \in 1..Len(a.link) |-> Lower(a.link[i])]

\* lowercased, punctuation removed, trimmed
NormalizedTitle(a) ==
  LET lowered == [i \in 1..Len(a.title) |-> Lower(a.title[i])]
  IN trim(SelectSeq(lowered, LAMBDA c : IsWordChar(c) \/ IsSpace(c)))

SameStory(a, b) == LowerLink(a) = LowerLink(b) \/ NormalizedTitle(a) = NormalizedTitle(b)

LinksUnique(list) ==
  \A i, j \in 1..Len(list) : i < j => LowerLink(list[i]) # LowerLink(list[j])

TitlesUnique(list) ==
  \A i, j \in 1..Len(list) : i < j => NormalizedTitle(list[i]) # NormalizedTitle(list[j])

\* each article is at least as recent as the one after it
AtLeastAsRecent(a, b) ==
  /\ a.publishedAt # InvalidTime
  /\ b.publishedAt # InvalidTime
  /\ a.publishedAt >= b.publishedAt

NewestFirst(list) == \A i \in 1..(Len(list) - 1) : AtLeastAsRecent(list[i], list[i + 1])

\* every article of list is returned, unless the returned list is full or
\* already holds the same story
Accounted(list) ==
  \/ Len(finalArticles) = min \div Denom
  \/ \A a \in Range(list) : \E b \in Range(finalArticles) : SameStory(a, b)

\* C1: no two articles returned by the aggregation have links that are equal
\* when compared case-insensitively.
C1_LinkUnique == LinksUnique(finalArticles)

\* the adapters delivered two links that differ only by case, and a list of
\* two articles was returned
C1_Witness ==
  /\ Aggregated
  /\ Len(finalArticles) >= 2
  /\ \E a, b \in Range(AdapterOutputs) : a.link # b.link /\ LowerLink(a) = LowerLink(b)

\* two articles of different adapters with different links and one normalized title
TitleCollision(a, b) ==
  /\ \/ a \in Range(googleNews.value) /\ b \in Range(newsApiResults.value) \cup Range(gdeltNews.value)
     \/ a \in Range(newsApiResults.value) /\ b \in Range(gdeltNews.value)
  /\ LowerLink(a) # LowerLink(b)
  /\ NormalizedTitle(a) = NormalizedTitle(b)

Returned(a) == a \in Range(finalArticles)

\* C2 (as amended): no two articles returned by the aggregation have the same
\* normalized title; when two adapters each return an article with different
\* links but the same normalized title, at most one of the two is returned.
C2_TitleUnique ==
  /\ TitlesUnique(finalArticles)
  /\ Aggregated =>
       \A a, b \in Range(AdapterOutputs) : TitleCollision(a, b) => ~(Returned(a) /\ Returned(b))

\* C2 (as stated): ... exactly one of the two is in the result (read here for
\* a whole minArticles only).
C2_ExactlyOne ==
  /\ TitlesUnique(finalArticles)
  /\ (Aggregated /\ min % Denom = 0) =>
       \A a, b \in Range(AdapterOutputs) : TitleCollision(a, b) => (Returned(a) # Returned(b))

\* a title collision across adapters was merged into one article of a longer list
C2_Witness ==
  /\ Aggregated
  /\ Len(finalArticles) >= 2
  /\ \E a, b \in Range(AdapterOutputs) : TitleCollision(a, b) /\ Returned(a) /\ ~Returned(b)

\* C3: the list returned by aggregate(topics, k) has at most k articles.
C3_AtMostK == Len(finalArticles) * Denom <= min

\* the list was cut: an article of a story that is not in the list was left out
C3_Witness ==
  /\ Aggregated
  /\ Len(finalArticles) >= 1
  /\ Len(finalArticles) * Denom = min
  /\ \E a \in Range(AdapterOutputs) : \A b \in Range(finalArticles) : ~SameStory(a, b)

\* C4: the list returned by the aggregation is sorted by publishedAt, newest
\* first: each article is at least as recent as the one after it.
C4_NewestFirst == NewestFirst(finalArticles)

\* no adapter produced an article
Starved ==
  /\ googleNews = Fulfilled(<<>>)
  /\ newsApiResults = Fulfilled(<<>>)
  /\ gdeltNews = Fulfilled(<<>>)

AllWindowsQueried ==
  \A i \in 1..Len(validTopics) : \A w \in 1..Len(timeWindows) :
    count(issued, ReqKey("rss", i, w)) = 1

C6_SuccessOrError ==
  phase = "responded" =>
    \/ /\ res.status = 200
       /\ res.error = ""
       /\ res.body # <<>>
       /\ LinksUnique(res.body)
       /\ TitlesUnique(res.body)
       /\ NewestFirst(res.body)
    \/ /\ res.status \in {400, 404, 500}
       /\ res.error # ""
       /\ res.body = <<>>

\* a success with two articles of different age
C6_Witness ==
  /\ phase = "responded"
  /\ res.status = 200
  /\ Len(res.body) >= 2
  /\ res.body[1].publishedAt > res.body[2].publishedAt

\* the topics value holds no string with a character other than a blank
NoUsableTopic(topics) ==
  \/ ~topics.isArray
  \/ \A i \in 1..Len(topics.items) :
       \/ ~topics.items[i].isString
       \/ \A j \in 1..Len(topics.items[i].s) : IsSpace(topics.items[i].s[j])

NothingIssued == DOMAIN issued = {}

\* C7: when topics is missing, not a list, empty or holds only blank strings,
\* the request is refused with 400 and no request is sent to any provider.
C7_InvalidTopicsRefused ==
  (phase # "idle" /\ NoUsableTopic(req.topics)) =>
    /\ phase = "responded"
    /\ res.status = 400
    /\ NothingIssued

\* a list holding only a blank string was refused
C7_Witness ==
  /\ phase = "responded"
  /\ req.topics.isArray
  /\ \E i \in 1..Len(req.topics.items) : req.topics.items[i].isString
  /\ NoUsableTopic(req.topics)
  /\ res.status = 400

\* C8: the minArticles handed to the aggregation is a positive integer of at
\* most 20: a value above 20 becomes 20, and a value that is not a number, not
\* positive or not an integer becomes the default 5.
C8_MinIsPositiveInteger ==
  (phase # "idle" /\ res.status # 400) =>
    LET asked == req.minArticles
        invalid == ~asked.isNumber \/ asked.n <= 0 \/ asked.n % Denom # 0
    IN /\ min % Denom = 0
       /\ min >= Denom
       /\ min <= MaxMin * Denom
       /\ (~invalid /\ asked.n > MaxMin * Denom) => min = MaxMin * Denom
       /\ invalid => min = DefaultMin * Denom

NothingRejected ==
  /\ googleNews.st # "rejected"
  /\ newsApiResults.st # "rejected"
  /\ gdeltNews.st # "rejected"
  /\ \A i \in 1..Len(tasks) : ~tasks[i].threw

\* the call that just settled failed, and added nothing
FailedCallAddsNothing ==
  warned' =>
    /\ \A i \in (1..Len(tasks)) \cap (1..Len(tasks')) :
         (tasks[i].st # "done" /\ tasks'[i].st = "done") =>
           (tasks'[i].out = <<>> /\ seen' = seen /\ results' = results)
    /\ (apiPos # "done" /\ apiPos' = "done") => newsApiResults' = Fulfilled(<<>>)
    /\ Range(gdeltResults') = Range(gdeltResults)

\* C9: a failure of an adapter call (error status, network error, timeout,
\* unparsable body) does not leave the adapter: no adapter promise rejects, the
\* failed call adds nothing, the request is not failed by it, and the
\* aggregation returns what the other calls delivered.
C9_FailuresContained ==
  /\ [](/\ NothingRejected
        /\ (phase = "responded" /\ res.status = 500) =>
              \E a \in Range(finalArticles) : a.publishedAt = InvalidTime
        /\ Aggregated => Accounted(AdapterOutputs))
  /\ [][FailedCallAddsNothing]_vars

\* the last adapter call failed and the request still succeeded with the
\* articles of two adapters
C9_Witness ==
  /\ Aggregated
  /\ warned
  /\ res.status = 200
  /\ \E a \in Range(googleNews.value) : Returned(a)
  /\ \E a \in Range(gdeltNews.value) : Returned(a)

\* C10: without a key the search API adapter sends no request, returns an
\* empty list and does not reject, and the aggregation returns the articles
\* of the other two adapters.
C10_NoKeyNoRequest ==
  (~hasNewsKey /\ phase # "idle" /\ res.status # 400) =>
    /\ count(issued, ReqKey("api", 0, 0)) = 0
    /\ apiPos = "done"
    /\ newsApiResults = Fulfilled(<<>>)
    /\ Aggregated =>
         /\ Accounted(googleNews.value \o gdeltNews.value)
         /\ Range(finalArticles) \subseteq Range(googleNews.value) \cup Range(gdeltNews.value)

\* without a key, a list with articles of both other adapters was returned
C10_Witness ==
  /\ ~hasNewsKey
  /\ Aggregated
  /\ res.status = 200
  /\ \E a \in Range(finalArticles) : a \in Range(googleNews.value) /\ a \notin Range(gdeltNews.value)
  /\ \E a \in Range(finalArticles) : a \in Range(gdeltNews.value) /\ a \notin Range(googleNews.value)

\* the duration a window of timeWindows stands for, in hours
windowHours(w) ==
  CASE w = "1h" -> 1
    [] w = "6h" -> 6
    [] w = "24h" -> 24

BoundedWindows == { w \in 1..Len(timeWindows) : timeWindows[w] # "" }

\* C11: in a bounded window w an article is accepted if and only if
\* now - publishedAt <= duration(w): every article a topic task of a bounded
\* window accepted is no older than that window's duration.
C11_FreshWithinWindow ==
  (phase = "running" /\ googleNews.st = "pending" /\ timeWindow \in BoundedWindows) =>
    \A i \in 1..Len(tasks) : \A a \in Range(tasks[i].out) :
      Now - a.publishedAt <= windowHours(timeWindows[timeWindow])

\* C15: after the merge step of every window the accumulator holds no two
\* articles with the same case-insensitive link or the same normalized title,
\* whichever windows they came from.
C15_AccumulatorUnique == LinksUnique(results) /\ TitlesUnique(results)

\* every article an adapter holds or has handed on
Produced ==
  Range(AdapterOutputs) \cup Range(results) \cup Range(gdeltResults)
    \cup UNION { Range(tasks[i].out) : i \in 1..Len(tasks) }

\* C19: every article produced by an adapter has a valid publishedAt (the
\* current time when the source's is missing or unparsable), so the sort and
\* the ISO serialization of the result never meet an invalid timestamp.
C19_ValidTimestamps ==
  /\ \A a \in Produced : a.publishedAt # InvalidTime
  /\ Aggregated => res.status # 500

\* C20: for an accepted request, when at least one adapter call returned a
\* qualifying article, the list the aggregation returns is not empty.
C20_NonEmptyWhenAnyQualifies ==
  (Aggregated /\ AdapterOutputs # <<>>) => finalArticles # <<>>

\* the same for a whole minArticles only, where it holds
C20_WholeMinOnly ==
  (Aggregated /\ AdapterOutputs # <<>> /\ min % Denom = 0) => finalArticles # <<>>

\* the articles the adapters took from the sources: the feed adapter's whole
\* accumulator and what the other two adapters returned
Offered == Range(results) \cup Range(newsApiResults.value) \cup Range(gdeltNews.value)

\* n of the offered articles are pairwise different stories
OffersDistinct(n) ==
  \E S \in SUBSET Offered :
    /\ Cardinality(S) = n
    /\ \A a, b \in S : a # b => ~SameStory(a, b)

UnboundedWindowQueried ==
  \A i \in 1..Len(validTopics) : count(issued, ReqKey("rss", i, Len(timeWindows))) = 1

\* C12: the final unbounded window accepts every article regardless of age,
\* so the minArticles floor can be met: when the unbounded window was queried
\* and the sources offered at least minArticles distinct qualifying articles,
\* the aggregation returns exactly minArticles articles.
C12_FloorMet ==
  (/\ Aggregated
   /\ min % Denom = 0
   /\ UnboundedWindowQueried
   /\ OffersDistinct(min \div Denom)) =>
    Len(finalArticles) * Denom = min

\* C13: the widening loop stops only when the accumulator holds at least
\* minArticles articles (the count the loop was given) or the window list is
\* exhausted; hence when the
\* aggregation returns fewer than minArticles articles, every window up to and
\* including the unbounded one has been queried.
C13_ShortMeansAllWindows ==
  (phase # "idle" /\ min % Denom = 0) =>
    /\ googleNews.st = "fulfilled" =>
         (Len(results) >= minGoogle(min) \/ timeWindow = Len(timeWindows) + 1)
    /\ (Aggregated /\ Len(finalArticles) * Denom < min) => AllWindowsQueried

\* the scenario: one topic, minArticles 5, the feed's first window gave three
\* fresh articles and the other two adapters had three to take from
FirstWindowFull ==
  /\ phase = "running"
  /\ min = DefaultMin * Denom
  /\ Len(validTopics) = 1
  /\ timeWindow = 1
  /\ googleNews.st = "pending"
  /\ Len(tasks) = 1
  /\ tasks[1].st = "done"
  /\ Len(tasks[1].out) = 3

NoLaterWindowIssued(bag) ==
  \A i \in 1..Len(validTopics) : \A w \in 2..Len(timeWindows) :
    count(bag, ReqKey("rss", i, w)) = 0

ScenarioMet ==
  /\ Aggregated
  /\ min = DefaultMin * Denom
  /\ Len(validTopics) = 1
  /\ timeWindow = 2
  /\ Len(results) = 3
  /\ Len(newsApiResults.value) = minApi(min)
  /\ Len(gdeltNews.value) = minGdelt(min)

\* C18: with one topic, minArticles = 5 and every adapter returning 3 unique
\* fresh articles in the first window, the aggregation returns exactly 5
\* articles, newest first, and the widening loop sends no request for any
\* window after the first.
C18_Scenario ==
  /\ [](ScenarioMet =>
          /\ Len(finalArticles) = 5
          /\ NewestFirst(finalArticles)
          /\ LinksUnique(finalArticles)
          /\ res.status = 200
          /\ NoLaterWindowIssued(issued))
  /\ [][FirstWindowFull => NoLaterWindowIssued(issued')]_vars

\* the scenario ran with the search API enabled, and the seven articles of the
\* adapters were cut to five
C18_Witness ==
  /\ ScenarioMet
  /\ hasNewsKey
  /\ NoLaterWindowIssued(issued)
  /\ Len(finalArticles) = 5
  /\ \E a \in Range(AdapterOutputs) : ~Returned(a)

\* C14: with merge(X, Y) the deduplication pass applied to X followed by Y,
\* merge(merge(A, B), B) equals merge(A, B): re-merging the same incoming
\* batch adds no entry.
C14_MergeIdempotent ==
  phase = "remerged" =>
    finalArticles = merge(googleNews.value, gdeltNews.value)

\* the batch was re-merged after the pass had refused an article of A for its
\* link and an article of B for its title, and had kept another article of B
C14_Witness ==
  /\ phase = "remerged"
  /\ \E a \in Range(googleNews.value) : ~Returned(a)
  /\ \E b \in Range(gdeltNews.value) :
       /\ ~Returned(b)
       /\ \A c \in Range(finalArticles) : LowerLink(c) # LowerLink(b)
  /\ \E b \in Range(gdeltNews.value) : Returned(b) /\ b \notin Range(googleNews.value)

\* a call of validateLink has ended
ProbeEnded == validation.pos \in {"head", "done"} /\ Len(validation.valid) > 0

\* the last call failed: a probe ended in a network error or a timeout, or the
\* existence probe's status was ambiguous and the retry did not succeed
ProbeFailed ==
  \/ validation.head = "error"
  \/ retries(validation.head) /\ validation.get \in {"status", "error"}

\* C16: validate(url) returns true on any failure: a timeout or network error
\* of either probe, and an ambiguous status on the existence probe followed by
\* a retry that does not succeed.
C16_OptimisticDefault ==
  (ProbeEnded /\ ProbeFailed) => validation.valid[Len(validation.valid)]

\* C17: whatever validate returns for the top results, of which at most 3 are
\* probed, the list returned is exactly the sorted, truncated list computed
\* before validation: no article is removed or reordered.
C17_ValidationAdvisory ==
  /\ \A k \in DOMAIN issued :
       /\ k.adapter \in {"head", "get"}
       /\ k.topic \in 1..MaxProbes
       /\ issued[k] = 1
  /\ Len(validation.valid) <= MaxProbes
  /\ googleNews.st # "rejected"
  /\ validation.pos = "done" =>
       /\ googleNews = Fulfilled(slice(results, min \div Denom))
       /\ Len(validation.valid) = probeCount(googleNews.value)

\* four articles were returned after three probes, of which one found its
\* link invalid
C17_Witness ==
  /\ validation.pos = "done"
  /\ Len(googleNews.value) = 4
  /\ Len(validation.valid) = 3
  /\ validation.warnings >= 1
  /\ \E i \in 1..3 : validation.valid[i]
  /\ googleNews.value[1].publishedAt > googleNews.value[4].publishedAt

\* the feed requests in a bag of requests
RssKeys(bag) == { k \in DOMAIN bag : k.adapter = "rss" }

\* the feed requests this step sends
RssSent == { k \in RssKeys(issued') : count(issued', k) > count(issued, k) }

\* every window up to the latest one queried was queried once for every topic,
\* and no window beyond the loop's position was queried
WindowsInOrder ==
  \A k \in RssKeys(issued) :
    /\ issued[k] = 1
    /\ k.window <= timeWindow
    /\ \A w \in 1..k.window : \A i \in 1..Len(validTopics) :
         count(issued, ReqKey("rss", i, w)) = 1

\* the requests of a further window are sent at the join of the window
\* before: its tasks have all settled, their articles are in the accumulator
\* and the accumulator is still short
SentAfterJoin ==
  (phase = "running" /\ RssSent # {}) =>
    /\ \A i \in 1..Len(tasks) : tasks[i].st = "done"
    /\ \A k \in RssSent : k.window = timeWindow + 1
    /\ timeWindow' = timeWindow + 1
    /\ \A i \in 1..Len(tasks) : \A a \in Range(tasks[i].out) :
         \E b \in Range(results') : b.link = a.link
    /\ Len(results') < minGoogle(min)

\* C21: windows are queried from the narrowest to the unbounded one; the
\* requests of window i+1 are sent only after every task of window i has
\* settled and its results were merged, and only if the accumulator is still
\* below the required count; once the count is reached no window request is sent.
C21_WindowBarrier ==
  /\ [](/\ WindowsInOrder
        /\ (googleNews.st = "fulfilled" /\ timeWindow <= Len(timeWindows)) =>
             Len(results) >= minGoogle(min))
  /\ [][SentAfterJoin /\ (googleNews.st = "fulfilled" => RssSent = {})]_vars

\* the loop stopped with the count reached after the second of two windows,
\* each queried for two topics
C21_Witness ==
  /\ googleNews.st = "fulfilled"
  /\ Len(validTopics) = 2
  /\ timeWindow = 3
  /\ Len(results) >= minGoogle(min)
  /\ RssKeys(issued) = { ReqKey("rss", i, w) : i \in 1..2, w \in 1..2 }

\* a feed call has just failed
FeedCallFailed ==
  /\ warned'
  /\ Len(tasks') = Len(tasks)
  /\ \E i \in 1..Len(tasks) : tasks[i].st # "done" /\ tasks'[i].st = "done"

\* C27: in one aggregate call the feed adapter sends at most one request per
\* (topic, window) pair; a failed call is not repeated for the same window, and
\* the only call that may follow it is that of the next, wider window.
C27_NoRetry ==
  /\ [](\A k \in RssKeys(issued) : issued[k] = 1 /\ k.window <= timeWindow)
  /\ [][(FeedCallFailed => issued' = issued)
        /\ \A k \in RssSent : phase = "running" => k.window = timeWindow + 1]_vars

\* every window was queried, once per topic, and the call that settled last in
\* the unbounded window failed
C27_Witness ==
  /\ phase = "running"
  /\ googleNews.st = "pending"
  /\ timeWindow = Len(timeWindows)
  /\ Len(validTopics) = 2
  /\ AllWindowsQueried
  /\ warned
  /\ newsApiResults.st = "fulfilled"
  /\ gdeltNews.st = "fulfilled"
  /\ \E i \in 1..Len(tasks) : tasks[i].st = "done" /\ tasks[i].out = <<>>

\* C22: the concurrent per-topic fetch tasks of a window neither read nor
\* write state shared with another task: a step of a task changes nothing but
\* the task's own list.
C22_TasksShareNothing ==
  [][(/\ phase = "running"
      /\ Len(tasks') = Len(tasks)
      /\ \E i \in 1..Len(tasks) : tasks'[i] # tasks[i]) =>
       (seen' = seen /\ results' = results)]_vars

\* K holds the positions of the retained articles: a position is in K if and
\* only if no article retained before it has its lowercased link or its
\* normalized title
RetainedAt(all, K) ==
  \A i \in 1..Len(all) :
    i \in K <=> ~ \E j \in K : j < i /\ SameStory(all[i], all[j])

\* the articles of all at the positions K, in their order
Pick(all, K) ==
  LET nth(k) == CHOOSE i \in K : Cardinality({ j \in K : j < i }) = k - 1
  IN [k \in 1..Cardinality(K) |-> all[nth(k)]]

\* C28: over the adapters' articles in arrival order, an article is dropped
\* if and only if its lowercased link or its normalized title equals that of
\* an article already retained; a dropped article never causes a later one to
\* be dropped, and the retained articles keep their arrival order.
C28_MergeSemantics ==
  phase = "merged" =>
    \E K \in SUBSET (1..Len(AdapterOutputs)) :
      /\ RetainedAt(AdapterOutputs, K)
      /\ finalArticles = Pick(AdapterOutputs, K)

\* an article was dropped for its link, and a later article with the dropped
\* one's title and a new link was retained after an article of the first list
C28_Witness ==
  /\ phase = "merged"
  /\ Len(finalArticles) >= 2
  /\ \E i, j \in 1..Len(AdapterOutputs) :
       /\ i < j
       /\ ~Returned(AdapterOutputs[i])
       /\ Returned(AdapterOutputs[j])
       /\ NormalizedTitle(AdapterOutputs[i]) = NormalizedTitle(AdapterOutputs[j])
       /\ LowerLink(AdapterOutputs[i]) # LowerLink(AdapterOutputs[j])

\* ---------------------------------------- responses that repeat an item
\* One topic and providers whose response holds an item twice, or two items
\* of their pool.
Repeats(pool) == { <<x, y>> : x \in pool, y \in pool }

RepeatRequests == [topics : {Arr(<<Str(<<"a">>)>>)}, minArticles : {NotNum}]
RepeatRssBodies ==
  { [k |-> "error", items |-> <<>>] }
    \cup { [k |-> "items", items |-> b] : b \in Repeats(RssPool) }
RepeatBodies(pool) ==
  { [k |-> "error", items |-> <<>>], [k |-> "other", items |-> <<>>] }
    \cup { [k |-> "articles", items |-> b] : b \in Repeats(pool) }

RepeatNext ==
  \/ \E r \in RepeatRequests : HandleNewsRequest(r)
  \/ \E o \in FetchOutcomes : RssFetchSettle(1, o)
  \/ \E b \in RepeatRssBodies : RssBodySettle(1, b)
  \/ RssWindowJoin
  \/ \E o \in FetchOutcomes : NewsApiFetchSettle(o)
  \/ \E b \in RepeatBodies(ApiPool) : NewsApiBodySettle(b)
  \/ \E o \in GdeltFetchOutcomes : GdeltFetchSettle(o)
  \/ \E b \in RepeatBodies(GdeltPool) : GdeltBodySettle(b)
  \/ AggregateJoin

RepeatSpec == Init /\ [][RepeatNext]_vars

\* no two articles of the list have the same link
NoLinkTwice(list) ==
  \A i, j \in 1..Len(list) : list[i].link = list[j].link => i = j

\* C24: the list returned by each of the three adapters never holds two
\* articles with the same link, even when the provider's response repeats an
\* item.
C24_AdapterLinksUnique ==
  /\ NoLinkTwice(googleNews.value)
  /\ NoLinkTwice(newsApiResults.value)
  /\ NoLinkTwice(gdeltNews.value)

\* the feed adapter and the global-index adapter do keep a link once
C24_FeedAndIndexUnique ==
  /\ NoLinkTwice(googleNews.value)
  /\ NoLinkTwice(gdeltNews.value)

\* ------------------------------------- fixed responses, any completion order
\* Two topics and providers whose responses are fixed: the feed answers the
\* two topics with one story in common, and all its articles carry the same
\* publish time. Only the order in which the topic tasks settle is free.
OrderFeed ==
  << << Raw(<<"a">>, LinkA, "ok", Now - 1), Raw(<<"c">>, LinkC, "ok", Now - 1) >>,
     << Raw(<<"a">>, LinkA, "ok", Now - 1), Raw(<<"b">>, LinkB, "ok", Now - 1) >> >>

OrderRequests ==
  [topics : {Arr(<<Str(<<"a">>), Str(<<"b">>)>>)}, minArticles : {NotNum}]

OrderNext ==
  \/ \E r \in OrderRequests : HandleNewsRequest(r)
  \/ \E i \in 1..Len(OrderFeed) : RssFetchSettle(i, "ok")
  \/ \E i \in 1..Len(OrderFeed) : RssBodySettle(i, [k |-> "items", items |-> OrderFeed[i]])
  \/ RssWindowJoin
  \/ NewsApiFetchSettle("ok")
  \/ NewsApiBodySettle([k |-> "articles", items |-> ApiFeed])
  \/ GdeltFetchSettle("ok")
  \/ GdeltBodySettle([k |-> "articles", items |-> GdeltFeed])
  \/ AggregateJoin

OrderSpec == Init /\ [][OrderNext]_vars

\* the topic tasks of one window settling in the order of the topics
RECURSIVE tasksInTopicOrder(_, _, _, _, _, _)
tasksInTopicOrder(feed, i, w, topics, seenBefore, outs) ==
  IF i > Len(feed) THEN [out |-> outs, seen |-> seenBefore]
  ELSE LET parsed == rssItems(feed[i], 1, timeWindows[w], topics[i], seenBefore, <<>>)
       IN tasksInTopicOrder(feed, i + 1, w, topics, parsed.seen, outs \o parsed.out)

\* what fetchGoogleNewsRss returns when, in every window, the topic tasks
\* settle in the order of the topics
RECURSIVE feedInTopicOrder(_, _, _, _, _, _)
feedInTopicOrder(feed, w, r, topics, seenBefore, minArticles) ==
  IF rssStops(w, r, minArticles) THEN slice(sortNewestFirst(r), minArticles)
  ELSE LET window == tasksInTopicOrder(feed, 1, w, topics, seenBefore, <<>>)
           merged == addUnique(r, sortNewestFirst(window.out), 1, minArticles)
       IN feedInTopicOrder(feed, w + 1, merged, topics, window.seen, minArticles)

\* C25: for fixed adapter responses the list returned by the aggregate call,
\* its articles and their order, is the same for every order in which the
\* parallel topic fetches of a window complete, also when two topics return
\* the same link and when several articles have an equal publish time.
C25_OrderIndependent ==
  (phase = "responded" /\ res.status = 200) =>
    finalArticles = combine(feedInTopicOrder(OrderFeed, 1, <<>>, validTopics, {}, minGoogle(min)),
                            newsApiResults.value, gdeltNews.value, min)

\* --------------------------------------------- five topics, nothing found
\* A request with five topics and providers that fail or answer with nothing.
ChainTopics == <<"a", "b", "c", "d", "e">>
ChainRequests ==
  [topics : {Arr([i \in 1..Len(ChainTopics) |-> Str(<<ChainTopics[i]>>)])},
   minArticles : {NotNum}]
ChainRssBodies == { [k |-> "error", items |-> <<>>], [k |-> "items", items |-> <<>>] }
ChainBodies == { [k |-> "error", items |-> <<>>], [k |-> "articles", items |-> <<>>] }

ChainNext ==
  \/ \E r \in ChainRequests : HandleNewsRequest(r)
  \/ \E i \in 1..Len(ChainTopics) : RssFetchSettle(i, "ok")
  \/ \E i \in 1..Len(ChainTopics), b \in ChainRssBodies : RssBodySettle(i, b)
  \/ RssWindowJoin
  \/ \E o \in FetchOutcomes : NewsApiFetchSettle(o)
  \/ \E b \in ChainBodies : NewsApiBodySettle(b)
  \/ \E o \in GdeltFetchOutcomes : GdeltFetchSettle(o)
  \/ \E b \in ChainBodies : GdeltBodySettle(b)
  \/ AggregateJoin

\* every fetch carries a timeout, so each pending call settles
ChainSpec == Init /\ [][ChainNext]_vars /\ WF_vars(ChainNext)

\* the calls of an adapter that were awaited one after another: the feed
\* adapter awaits one window after another, the global-index adapter one
\* topic after another
RssChain == Cardinality({ k.window : k \in { q \in DOMAIN issued : q.adapter = "rss" } })
ApiChain == Cardinality({ q \in DOMAIN issued : q.adapter = "api" })
GdeltChain == Cardinality({ q \in DOMAIN issued : q.adapter = "gdelt" })

\* C29: the longest chain of adapter calls awaited one after another within
\* one aggregate call is at most the number of windows.
C29_ChainBounded ==
  /\ RssChain <= Len(timeWindows)
  /\ ApiChain <= Len(timeWindows)
  /\ GdeltChain <= Len(timeWindows)

\* ... and every aggregate call terminates
C29_Terminates == (phase = "running") ~> (phase = "responded")

\* the chains of the feed adapter and of the key-gated adapter are bounded
C29_WindowedChainsBounded ==
  /\ RssChain <= Len(timeWindows)
  /\ ApiChain <= 1

\* ------------------------------------- the refine action of App (App.tsx)
\* a string or a nullable string is truthy
truthy(v) == ~v.isNull /\ v.s # <<>>

\* what the refinement service may answer, as texts of tokens: HTML, an image
\* request, an image request without a prompt, another object, and null
HtmlResult == <<"<p>", "x">>
ImageRequest == <<"{", "requestType", "image", "newImagePrompt", "sky", "}">>
ImageNoPrompt == <<"{", "requestType", "image", "newImagePrompt", "", "}">>
OtherObject == <<"{", "requestType", "text", "newImagePrompt", "sky", "}">>
NullResult == <<"null">>
RefineResults == {HtmlResult, ImageRequest, ImageNoPrompt, OtherObject, NullResult}

\* JSON.parse: null, an object of string members, or a SyntaxError
JSONparse(text) ==
  IF text = <<"null">> THEN [k |-> "null", o |-> [m \in {} |-> ""]]
  ELSE IF /\ Len(text) >= 2
          /\ text[1] = "{"
          /\ text[Len(text)] = "}"
          /\ Len(text) % 2 = 0
       THEN [k |-> "object",
             o |-> [m \in { text[2 * i] : i \in 1..((Len(text) - 2) \div 2) } |->
                      text[1 + (2 * CHOOSE i \in 1..((Len(text) - 2) \div 2) : text[2 * i] = m)]]]
       ELSE [k |-> "throws", o |-> [m \in {} |-> ""]]

\* a member of the parsed object; "" stands for undefined too
member(o, m) == IF m \in DOMAIN o THEN o[m] ELSE ""

\* parsed.requestType === 'image' && parsed.newImagePrompt, where reading a
\* member of null throws into the inner catch
asksForImage(result) ==
  LET parsed == JSONparse(result)
  IN /\ parsed.k = "object"
     /\ member(parsed.o, "requestType") = "image"
     /\ member(parsed.o, "newImagePrompt") # ""

\* the finally block
settled(u) ==
  [u EXCEPT !.pos = "idle", !.loadingAction = "", !.loadingMessage = "",
            !.refinementPrompt = <<>>, !.result = <<>>]

serverVars ==
  <<phase, req, hasNewsKey, validTopics, min, timeWindow, results, seen, tasks,
    googleNews, apiPos, newsApiResults, gdeltPos, gdeltTopic, gdeltResults,
    gdeltNews, issued, warned, finalArticles, res, validation>>

\* the user types into the refinement box, which is shown with the preview
\* and disabled while loading
SetRefinementPrompt(value) ==
  /\ ui.pos = "idle"
  /\ ui.loadingAction = ""
  /\ truthy(ui.newsletterHtml)
  /\ ui' = [ui EXCEPT !.refinementPrompt = value]
  /\ UNCHANGED <<serverVars, calls>>

\* handleRefineNewsletter up to the await of refineNewsletter
HandleRefineNewsletter ==
  /\ ui.pos = "idle"
  /\ trim(ui.refinementPrompt) # <<>>
  /\ truthy(ui.newsletterHtml)
  /\ ui' = [ui EXCEPT !.pos = "refine", !.loadingAction = "refine", !.error = "",
                      !.loadingMessage = "Refining your newsletter..."]
  /\ UNCHANGED <<serverVars, calls>>

\* refineNewsletter settles: it throws, or it returns a text that is an image
\* request, for which generateHeaderImage is awaited, or is taken as HTML
RefineSettle(outcome) ==
  /\ ui.pos = "refine"
  /\ ui' = IF outcome.k = "error"
           THEN settled([ui EXCEPT !.error = "Failed to refine newsletter"])
           ELSE IF asksForImage(outcome.result)
                THEN [ui EXCEPT !.pos = "image", !.result = outcome.result,
                                !.loadingMessage = "Generating new header image..."]
                ELSE settled([ui EXCEPT !.newsletterHtml = Val(outcome.result)])
  /\ UNCHANGED <<serverVars, calls>>

\* generateHeaderImage settles: the image is set, or the inner catch takes the
\* failure, isImageRequest is false again and the result is set as the HTML
ImageSettle(outcome) ==
  /\ ui.pos = "image"
  /\ ui' = IF outcome.k = "error"
           THEN settled([ui EXCEPT !.newsletterHtml = Val(ui.result)])
           ELSE settled([ui EXCEPT !.headerImageUrl = Val(outcome.result)])
  /\ UNCHANGED <<serverVars, calls>>

PromptInputs == { <<>>, <<" ">>, <<"p">>, <<" ", "q">> }
RefineOutcomes ==
  { [k |-> "error", result |-> <<>>] } \cup { [k |-> "ok", result |-> t] : t \in RefineResults }
ImageOutcomes ==
  { [k |-> "error", result |-> <<>>], [k |-> "ok", result |-> <<"png", "1">>],
    [k |-> "ok", result |-> <<"png", "2">>] }

\* a newsletter has been generated, with or without a header image
RefineInit ==
  /\ phase = "idle"
  /\ req = [topics |-> NotArr, minArticles |-> NotNum]
  /\ hasNewsKey = FALSE
  /\ validTopics = <<>>
  /\ min = 0
  /\ timeWindow = 0
  /\ results = <<>>
  /\ seen = {}
  /\ tasks = <<>>
  /\ googleNews = Pending
  /\ apiPos = "done"
  /\ newsApiResults = Pending
  /\ gdeltPos = "done"
  /\ gdeltTopic = 0
  /\ gdeltResults = <<>>
  /\ gdeltNews = Pending
  /\ issued = [k \in {} |-> 0]
  /\ warned = FALSE
  /\ finalArticles = <<>>
  /\ res = NoResponse
  /\ validation = NoValidation
  /\ ui \in { [NoUi EXCEPT !.newsletterHtml = Val(<<"<h1>", "n">>), !.headerImageUrl = h] :
                h \in {Null, Val(<<"png", "0">>)} }
  /\ calls = NoCalls

RefineNext ==
  \/ \E v \in PromptInputs : SetRefinementPrompt(v)
  \/ HandleRefineNewsletter
  \/ \E o \in RefineOutcomes : RefineSettle(o)
  \/ \E o \in ImageOutcomes : ImageSettle(o)

RefineSpec == RefineInit /\ [][RefineNext]_vars

\* C30: in the refine action, when the refinement response is an image
\* request, the newsletter HTML is left unchanged whether the image generation
\* then succeeds or fails, and the loading state is cleared afterwards.
C30_ImageRequestKeepsHtml ==
  [][ /\ (ui'.pos = "image" \/ ui.pos = "image") => ui'.newsletterHtml = ui.newsletterHtml
      /\ (ui.pos = "image" /\ ui'.pos # "image") =>
           (ui'.loadingAction = "" /\ ui'.loadingMessage = "")
    ]_vars

\* ... which holds when the image generation succeeds
C30_GeneratedImageKeepsHtml ==
  [][ /\ ui'.pos = "image" => ui'.newsletterHtml = ui.newsletterHtml
      /\ (ui.pos = "image" /\ ui'.newsletterHtml # Val(ui.result)) =>
           ui'.newsletterHtml = ui.newsletterHtml
      /\ (ui.pos = "image" /\ ui'.pos # "image") =>
           (ui'.loadingAction = "" /\ ui'.loadingMessage = "")
    ]_vars

\* ------------------------------------------------- long and odd fields
\* One topic, short or long, and providers whose items have a title over the
\* limit, a description over the limit or with markup, no description, a
\* blank title, or a link that is not http(s).
LongTopic == [i \in 1..(SummaryMax - Len(NewsAbout) + 1) |-> "a"]
LongTitle == [i \in 1..(TitleMax + 1) |-> "a"]
LongDescription == [i \in 1..(SummaryMax + 1) |-> "d"]
TaggedDescription == <<" ", "<", "b", ">", "d", " ", " ", "d", "<", "/", "b", ">">>

FieldsRequests ==
  [topics : {Arr(<<Str(<<"a">>)>>), Arr(<<Str(LongTopic)>>)}, minArticles : {NotNum}]
FieldsRssItems ==
  { RawWith(LongTitle, LinkA, "ok", Now - 1, LongDescription, <<>>),
    RawWith(<<"b">>, LinkB, "ok", Now - 2, TaggedDescription, <<>>),
    Raw(<<"c">>, LinkC, "ok", Now),
    Raw(<<" ">>, LinkC, "ok", Now),
    Raw(<<"d">>, LinkFtp, "ok", Now) }
FieldsApiItems ==
  { RawWith(LongTitle, LinkA, "ok", Now - 1, LongDescription, <<>>),
    RawWith(<<"b">>, LinkB, "ok", Now - 2, <<" ">>, <<>>),
    Raw(<<" ">>, LinkC, "ok", Now),
    Raw(<<"d">>, LinkFtp, "ok", Now) }
FieldsGdeltItems ==
  { RawWith(LongTitle, LinkA, "ok", Now - 1, <<>>, <<"e">>),
    Raw(<<"b">>, LinkB, "ok", Now - 2),
    Raw(<<" ">>, LinkC, "ok", Now),
    Raw(<<"d">>, LinkFtp, "ok", Now) }

FieldsNext ==
  \/ \E r \in FieldsRequests : HandleNewsRequest(r)
  \/ \E o \in FetchOutcomes : RssFetchSettle(1, o)
  \/ \E x \in FieldsRssItems : RssBodySettle(1, [k |-> "items", items |-> <<x>>])
  \/ RssWindowJoin
  \/ \E o \in FetchOutcomes : NewsApiFetchSettle(o)
  \/ \E x \in FieldsApiItems : NewsApiBodySettle([k |-> "articles", items |-> <<x>>])
  \/ \E o \in GdeltFetchOutcomes : GdeltFetchSettle(o)
  \/ \E x \in FieldsGdeltItems : GdeltBodySettle([k |-> "articles", items |-> <<x>>])
  \/ AggregateJoin

FieldsSpec == Init /\ [][FieldsNext]_vars

TitleBounded(a) == a.title # <<>> /\ Len(a.title) <= TitleMax
SummaryBounded(a) == Len(a.summary) <= SummaryMax
LinkIsHttp(a) == isValidUrl(a.link)

\* C26: every article returned by the aggregate call has a non-empty title of
\* at most 200 characters, a summary of at most 300 characters and a link
\* that parses as an absolute http or https URL.
C26_FieldsBounded ==
  \A a \in Range(finalArticles) : TitleBounded(a) /\ SummaryBounded(a) /\ LinkIsHttp(a)

\* the title and the link of every adapter's articles are bounded so, and so
\* are the summaries of the feed adapter and of the global-index adapter
C26_AllButSearchSummary ==
  /\ \A a \in Range(AdapterOutputs) \cup Range(finalArticles) :
       TitleBounded(a) /\ LinkIsHttp(a)
  /\ \A a \in Range(googleNews.value) \cup Range(gdeltNews.value) : SummaryBounded(a)

\* ------------------------------------------------- two overlapping calls
\* Two calls of fetchNewsFromMultipleSources, each with one topic and without
\* key, overlap: their steps interleave in any order. The feed answers a call
\* with the same items in every window; the global index answers with one
\* story the feed has too.
\* const seen = new Set<string>() is declared in the call: one set per call
seenPerModule(c) == 0
seenOf(c) == c

IsoMin == clampMin(NotNum)
IsoFeeds ==
  { << Raw(<<"a">>, LinkA, "ok", Now - 1) >>,
    << Raw(<<"a">>, LinkA, "ok", Now - 1), Raw(<<"c">>, LinkC, "ok", Now - 2) >>,
    << Raw(<<"b">>, LinkB, "ok", Now - FreshnessHours - 1), Raw(<<"a">>, LinkA, "ok", Now - 1) >> }
IsoGdeltFeed == << Raw(<<"a">>, LinkAUpper, "ok", Now - 3) >>
IsoTopics == [c \in Callers |-> <<"a">>]

\* the feed adapter of call c after a window: it stops and returns, or goes on
isoLoop(call, w, merged) ==
  IF rssStops(w, merged, minGoogle(IsoMin))
  THEN [call EXCEPT !.pos = "join", !.timeWindow = w,
                    !.results = sortNewestFirst(merged),
                    !.googleNews = slice(sortNewestFirst(merged), minGoogle(IsoMin))]
  ELSE [call EXCEPT !.pos = "window", !.timeWindow = w, !.results = merged]

\* a call starts
CallStarts(c, feed) ==
  /\ calls.call[c].pos = "idle"
  /\ calls' = [calls EXCEPT !.call[c] =
                 isoLoop([IdleCall EXCEPT !.topic = IsoTopics[c], !.feed = feed], 1, <<>>)]
  /\ UNCHANGED <<serverVars, ui>>

\* the topic task of a call's window settles and the window is merged
CallWindowSettles(c) ==
  /\ calls.call[c].pos = "window"
  /\ LET call == calls.call[c]
         parsed == rssItems(call.feed, 1, timeWindows[call.timeWindow], call.topic,
                            calls.seen[seenOf(c)], <<>>)
         merged == addUnique(call.results, sortNewestFirst(parsed.out), 1, minGoogle(IsoMin))
     IN calls' = [calls EXCEPT !.seen[seenOf(c)] = parsed.seen,
                               !.call[c] = isoLoop(call, call.timeWindow + 1, merged)]
  /\ UNCHANGED <<serverVars, ui>>

\* the adapters of a call have settled and the call returns
CallReturns(c) ==
  /\ calls.call[c].pos = "join"
  /\ LET call == calls.call[c]
     IN calls' = [calls EXCEPT !.call[c] =
                    [call EXCEPT !.pos = "done",
                                 !.value = combine(call.googleNews, <<>>,
                                                   gdeltItems(IsoGdeltFeed, 1, call.topic,
                                                              minGdelt(IsoMin), <<>>),
                                                   IsoMin)]]
  /\ UNCHANGED <<serverVars, ui>>

IsolationNext ==
  \/ \E c \in Callers, feed \in IsoFeeds : CallStarts(c, feed)
  \/ \E c \in Callers : CallWindowSettles(c)
  \/ \E c \in Callers : CallReturns(c)

IsolationSpec == Init /\ [][IsolationNext]_vars

\* what a call returns when it runs alone on the same responses
Alone(call) ==
  combine(feedInTopicOrder(<<call.feed>>, 1, <<>>, <<call.topic>>, {}, minGoogle(IsoMin)),
          <<>>,
          gdeltItems(IsoGdeltFeed, 1, call.topic, minGdelt(IsoMin), <<>>),
          IsoMin)

\* C23: when two aggregate calls overlap and their steps interleave in any
\* order, each call returns the list it would return when run alone on the
\* same adapter responses: an article seen by one call never makes the other
\* call drop an article.
C23_CallsIsolated ==
  \A c \in Callers :
    calls.call[c].pos = "done" => calls.call[c].value = Alone(calls.call[c])

\* one call has returned an article while the other, still in flight, holds an
\* article with the same link
C23_Witness ==
  /\ calls.call[1].pos = "done"
  /\ calls.call[2].pos = "window"
  /\ calls.call[2].timeWindow >= 2
  /\ \E a \in Range(calls.call[1].value), b \in Range(calls.call[2].results) :
       a.link = b.link

====
